---- MODULE Spec2Model ----
(***************************************************************************)
(* Model of rubus' comic indexing and storage code (src/rubus/comics.py    *)
(* and src/rubus/helper.py).                                               *)
(*                                                                         *)
(* comics.py reaches the database through a module-level name `conn` that  *)
(* the module itself never binds.  The model reads it as one open sqlite3  *)
(* connection to DATABASE_FILEPATH shared by every function of the module  *)
(* and usable from each of its threads: the relations below are the        *)
(* database as seen through that connection.  Rows a crawl inserted before *)
(* an exception skipped its conn.commit() stay visible through the         *)
(* connection and are committed by the next commit on it, the one of       *)
(* _create_database_tables at the latest.                                  *)
(*                                                                         *)
(* The remote site is modelled per comic as a history of pages 1..n, page  *)
(* k carrying date k and linking to page k-1 ("article-navlink prev");     *)
(* page 1 has no previous link.  New pages are only ever appended.         *)
(*                                                                         *)
(* Values handed to sqlite3 as statement parameters carry their Python     *)
(* type (Str, Tuple), since sqlite3 refuses to bind a tuple.  A date text  *)
(* is the sequence of its numeric fields, <<D, M>> or <<D, M, YYYY>>.      *)
(***************************************************************************)
EXTENDS Integers, Sequences, FiniteSets, Bags, TLC

\* Largest number of pages a comic's remote history grows to.
MaxPages == 2

\* Python's None, where the other values are strings.
None == "None"

\* fetchone() without a row: None, where a row is a tuple <<value>>.
NoRow == <<>>

\* The comics of the site.
Comics == {"Fingerpori", "FokIt"}

\* Threads that may run update_index.
Passes == {"t1", "t2"}

\* Threads that call database_query.
Callers == {"c1", "c2"}

\* Largest number of requests submitted through database_query.
MaxRequests == 3

\* Statements submitted through database_query.
Statements == {"SELECT", "INSERT"}

\* The sqlite3 exceptions cursor.execute may raise.
Errors == {"OperationalError", "ProgrammingError", "IntegrityError"}

\* Chats and the threads that handle their updates.
Chats == {1, 2}

Handlers == {"h1", "h2"}

\* The urls the frontpage may list for a comic.
Urls == {"u1", "u2"}

VARIABLES
    frontpage,     \* the comics the frontpage lists, in listing order
    homepage,      \* homepage[c]: the url the frontpage lists for comic c
    remote,        \* remote[c]: number of pages in comic c's remote history
    sources,       \* relation sources(name UNIQUE, url)
    images,        \* relation images(name, date, filepath, file_id), a bag of rows
    files,         \* image files present in the storage directory
    pass,          \* pass[p]: control point and locals of thread p in update_index
    synced,        \* history: synced[c] = start page of the last crawl of c that reached commit, 0 if none
    interrupted,   \* history: interrupted[c] iff a fetch failure aborted a crawl of c after it had
                   \*          inserted rows, and no crawl of c reached commit since
    redownloaded   \* history: image paths downloaded while their (name, date) was already indexed

VARIABLES
    module,        \* the module whose database_worker runs: "helper" or "comics"
    queries,       \* the queue of Query tuples
    results,       \* the queue of Result tuples and None
    worker,        \* "running", or "crashed" once an exception has left database_worker
    caller,        \* caller[c]: control point and locals of thread c in database_query
    tickets,       \* history: number of requests put on queries; request n carries ticket n
    executed,      \* history: ticket and outcome of every statement executed, in order
    posted         \* history: ticket of every result put on results, in order

VARIABLES
    daily_posts,   \* relation daily_posts(chat_id, name, UNIQUE(chat_id, name)), a bag of rows
    handler        \* handler[h]: control point and locals of thread h in the scheduling functions

VARIABLES
    date_text,     \* download_comic: the fields of the date text of the page, <<D, M>> or <<D, M, YYYY>>
    today,         \* download_comic: the year of datetime.datetime.now()
    parsed_date    \* download_comic: the outcome of parsing date_text

VARIABLES
    daily,         \* the outcome of the last call of post_comic_of_the_day
    random         \* the outcome of the last call of random_post

VARIABLES
    flat_list,         \* group_elements: the list to group
    amount_per_group,  \* group_elements: the size of a group
    grouped            \* group_elements: the list of groups returned

VARIABLES
    conversation   \* comics.handler_conversation: its state and the last update it handled

VARIABLES
    sticker_state, \* stickers.handler_conversation: the state of the user's conversation in each chat
    user_data,     \* context.user_data of the user: the keys it holds
    sticker_sets,  \* the chats whose sticker set of the user exists at Telegram
    found,         \* history: found[c] iff add_sticker_start last found the set of chat c to exist
    bot_call       \* history: the last call of add_sticker_emoji and what it did

VARIABLES
    reply,         \* database_query_single: what results.get() returns to its database_query
    single         \* database_query_single: its outcome

crawlVars == <<frontpage, homepage, remote, sources, images, files, pass, synced, interrupted, redownloaded>>

workerVars == <<module, queries, results, worker, caller, tickets, executed, posted>>

scheduleVars == <<daily_posts, handler>>

dateVars == <<date_text, today, parsed_date>>

postVars == <<daily, random>>

singleVars == <<reply, single>>

groupVars == <<flat_list, amount_per_group, grouped>>

conversationVars == <<conversation>>

stickerVars == <<sticker_state, user_data, sticker_sets, found, bot_call>>

restVars == <<singleVars, groupVars, conversationVars, stickerVars>>

vars == <<crawlVars, workerVars, scheduleVars, dateVars, postVars, restVars>>

----------------------------------------------------------------------------
\* The remote site

\* download_comic: the date parsed from page k of a comic.
PageDate(c, k) == k

\* _download_comic_image: the file path the image of page k is saved under
\* (storage directory + the host's file name, one per page).
ImagePath(c, k) == <<c, k>>

\* fetch_comics_available: the url listed for a comic.
HomepageUrl(c) == <<c, homepage[c]>>

----------------------------------------------------------------------------
\* The database

\* The dates of the rows of images with the given name.
StoredDates(name) == {r.date : r \in {x \in BagToSet(images) : x.name = name}}

\* Number of rows of images with the given name and date.
RowCount(name, date) ==
    LET rows == {x \in BagToSet(images) : x.name = name /\ x.date = date}
    IN  IF rows = {} THEN 0 ELSE CopiesIn(CHOOSE x \in rows : TRUE, images)

SetMax(S) == CHOOSE m \in S : \A x \in S : x <= m

SetMin(S) == CHOOSE m \in S : \A x \in S : m <= x

\* The same SELECT with ORDER BY date ASC.
OldestStoredDate(name) ==
    IF StoredDates(name) = {} THEN NoRow ELSE <<SetMin(StoredDates(name))>>

\* The same SELECT without its WHERE clause.
LatestDateOfAnyName(name) ==
    IF BagToSet(images) = {} THEN NoRow
    ELSE <<SetMax({r.date : r \in BagToSet(images)})>>

\* "SELECT date FROM images WHERE name = ? ORDER BY date DESC" ... fetchone()
LatestStoredDate(name) ==
    IF StoredDates(name) = {} THEN NoRow ELSE <<SetMax(StoredDates(name))>>

\* The same INSERT as INSERT OR REPLACE on a table keyed by name.
ReplaceImage(name, date, filepath) ==
    LET kept == {r \in BagToSet(images) : r.name # name}
    IN  [r \in kept |-> images[r]]
           (+) SetToBag({[name |-> name, date |-> date, filepath |-> filepath, file_id |-> None]})

\* "INSERT INTO images (name, date, filepath) values (?, ?, ?)"; the table
\* declares no key, so the row is always added.
InsertImage(name, date, filepath) ==
    images (+) SetToBag({[name |-> name, date |-> date, filepath |-> filepath, file_id |-> None]})

\* A plain INSERT into a table that declares no key.
InsertSource(rel, name, url) == rel \cup {[name |-> name, url |-> url]}

\* "INSERT OR REPLACE INTO sources (name, url) values (?, ?)" under UNIQUE(name)
UpsertSource(rel, name, url) ==
    {r \in rel : r.name # name} \cup {[name |-> name, url |-> url]}

\* The loop of _create_database_tables over comics_available.
RECURSIVE UpsertAll(_, _)
UpsertAll(rel, names) ==
    IF names = <<>> THEN rel
    ELSE UpsertAll(UpsertSource(rel, Head(names), HomepageUrl(Head(names))), Tail(names))

----------------------------------------------------------------------------
\* update_index, run by thread p

Idle ==
    [pc |-> "idle", comics |-> <<>>, idx |-> 0, latest |-> NoRow, top |-> 0, cur |-> 0,
     date |-> 0, inserted |-> 0, known |-> {}, resync |-> 0, resume |-> FALSE,
     error |-> None, replaced |-> {}]

\* The comic thread p is crawling.
Comic(p) == pass[p].comics[pass[p].idx]

\* The locals of a pass that starts crawling its idx-th comic.
NextCrawl(comics, idx) == [Idle EXCEPT !.pc = "select", !.comics = comics, !.idx = idx]

\* The locals left when an exception leaves update_index.
Raised(p, kind) ==
    [Idle EXCEPT !.pc = "failed", !.comics = pass[p].comics, !.idx = pass[p].idx, !.error = kind]

CrawlInit(listing) ==
    /\ frontpage = listing
    /\ homepage = [c \in Comics |-> "u1"]
    /\ remote = [c \in Comics |-> 1]
    /\ sources = {}
    /\ images = EmptyBag
    /\ files = {}
    /\ pass = [p \in Passes |-> Idle]
    /\ synced = [c \in Comics |-> 0]
    /\ interrupted = [c \in Comics |-> FALSE]
    /\ redownloaded = {}

\* The site publishes a new page of a listed comic.
Publish(c) ==
    /\ \E i \in 1..Len(frontpage) : frontpage[i] = c
    /\ remote[c] < MaxPages
    /\ remote' = [remote EXCEPT ![c] = @ + 1]
    /\ UNCHANGED <<frontpage, homepage, sources, images, files, pass, synced, interrupted, redownloaded>>
    /\ UNCHANGED <<workerVars, scheduleVars, dateVars, postVars, restVars>>

\* The frontpage lists another url for a comic.
Relist(c) ==
    /\ \E u \in Urls \ {homepage[c]} : homepage' = [homepage EXCEPT ![c] = u]
    /\ UNCHANGED <<frontpage, remote, sources, images, files, pass, synced, interrupted, redownloaded>>
    /\ UNCHANGED <<workerVars, scheduleVars, dateVars, postVars, restVars>>

\* update_index up to the loop: fetch_comics_available, _create_database_tables.
UpdateIndex(p) ==
    /\ pass[p].pc \in {"idle", "done", "failed"}
    /\ \/ /\ sources' = UpsertAll(sources, frontpage)
          /\ pass' = [pass EXCEPT ![p] =
                        [NextCrawl(frontpage, 1) EXCEPT !.replaced =
                            {r.name : r \in sources \ UpsertAll(sources, frontpage)}]]
       \/ \* the frontpage request or its parsing raises
          /\ pass' = [pass EXCEPT ![p] = [Idle EXCEPT !.pc = "failed", !.error = "fetch"]]
          /\ UNCHANGED sources
    /\ UNCHANGED <<frontpage, homepage, remote, images, files, synced, interrupted, redownloaded>>
    /\ UNCHANGED <<workerVars, scheduleVars, dateVars, postVars, restVars>>

\* _update_index_of_comic: the two SELECTs before the first request.  The url
\* row exists: _create_database_tables has just written it.
SelectLatest(p) ==
    /\ pass[p].pc = "select"
    /\ \E r \in sources : r.name = Comic(p)
    /\ pass' = [pass EXCEPT ![p].pc = "fetch_latest",
                            ![p].latest = LatestStoredDate(Comic(p)),
                            ![p].known = StoredDates(Comic(p)),
                            ![p].resync = synced[Comic(p)],
                            ![p].resume = interrupted[Comic(p)]]
    /\ UNCHANGED <<frontpage, homepage, remote, sources, images, files, synced, interrupted, redownloaded>>
    /\ UNCHANGED <<workerVars, scheduleVars, dateVars, postVars, restVars>>

\* fetch_comic_url_latest: the url of the comic's latest page.
FetchComicUrlLatest(p) ==
    /\ pass[p].pc = "fetch_latest"
    /\ pass' = [pass EXCEPT ![p].pc = "download",
                            ![p].top = remote[Comic(p)],
                            ![p].cur = remote[Comic(p)]]
    /\ UNCHANGED <<frontpage, homepage, remote, sources, images, files, synced, interrupted, redownloaded>>
    /\ UNCHANGED <<workerVars, scheduleVars, dateVars, postVars, restVars>>

\* A download_comic that returns the file path without having written the file.
DownloadComicUnwritten(p) ==
    /\ pass[p].pc = "download"
    /\ pass' = [pass EXCEPT ![p].pc = "index",
                            ![p].date = PageDate(Comic(p), pass[p].cur)]
    /\ UNCHANGED <<frontpage, homepage, remote, sources, images, files, synced, interrupted,
                   redownloaded>>
    /\ UNCHANGED <<workerVars, scheduleVars, dateVars, postVars, restVars>>

\* download_comic: request the page, parse its date, download and save the image.
DownloadComic(p) ==
    /\ pass[p].pc = "download"
    /\ files' = files \cup {ImagePath(Comic(p), pass[p].cur)}
    /\ redownloaded' =
          IF RowCount(Comic(p), PageDate(Comic(p), pass[p].cur)) > 0
          THEN redownloaded \cup {ImagePath(Comic(p), pass[p].cur)}
          ELSE redownloaded
    /\ pass' = [pass EXCEPT ![p].pc = "index",
                            ![p].date = PageDate(Comic(p), pass[p].cur)]
    /\ UNCHANGED <<frontpage, homepage, remote, sources, images, synced, interrupted>>
    /\ UNCHANGED <<workerVars, scheduleVars, dateVars, postVars, restVars>>

\* A comparison that never matches (a date object against the stored string).
StopNever(p) == FALSE

\* The stop test of the crawl loop: the page's date against the latest stored date.
StopHere(p) == <<pass[p].date>> = pass[p].latest

\* The loop body after download_comic: break on the stop date, else INSERT.
IndexComic(p) ==
    /\ pass[p].pc = "index"
    /\ IF StopHere(p)
       THEN /\ pass' = [pass EXCEPT ![p].pc = "commit"]
            /\ UNCHANGED images
       ELSE /\ images' = InsertImage(Comic(p), pass[p].date, ImagePath(Comic(p), pass[p].cur))
            /\ pass' = [pass EXCEPT ![p].pc = "follow", ![p].inserted = @ + 1]
    /\ UNCHANGED <<frontpage, homepage, remote, sources, files, synced, interrupted, redownloaded>>
    /\ UNCHANGED <<workerVars, scheduleVars, dateVars, postVars, restVars>>

\* A generator that yields the latest page only.
FetchLatestOnly(p) ==
    /\ pass[p].pc = "follow"
    /\ pass' = [pass EXCEPT ![p].pc = "commit"]
    /\ UNCHANGED <<frontpage, homepage, remote, sources, images, files, synced, interrupted, redownloaded>>
    /\ UNCHANGED <<workerVars, scheduleVars, dateVars, postVars, restVars>>

\* A generator that never returns from the page without a previous link.
FetchPreviousHangs(p) ==
    /\ pass[p].pc = "follow"
    /\ IF pass[p].cur > 1
       THEN pass' = [pass EXCEPT ![p].pc = "download", ![p].cur = @ - 1]
       ELSE UNCHANGED pass
    /\ UNCHANGED <<frontpage, homepage, remote, sources, images, files, synced, interrupted, redownloaded>>
    /\ UNCHANGED <<workerVars, scheduleVars, dateVars, postVars, restVars>>

\* _fetch_comic_url_all resumed: request the page again and follow its previous
\* link; without one the generator, and with it the loop, ends.
FetchPrevious(p) ==
    /\ pass[p].pc = "follow"
    /\ IF pass[p].cur > 1
       THEN pass' = [pass EXCEPT ![p].pc = "download", ![p].cur = @ - 1]
       ELSE pass' = [pass EXCEPT ![p].pc = "commit"]
    /\ UNCHANGED <<frontpage, homepage, remote, sources, images, files, synced, interrupted, redownloaded>>
    /\ UNCHANGED <<workerVars, scheduleVars, dateVars, postVars, restVars>>

\* conn.commit() ends the crawl of one comic; update_index goes on to the next one.
Commit(p) ==
    /\ pass[p].pc = "commit"
    /\ synced' = [synced EXCEPT ![Comic(p)] = pass[p].top]
    /\ interrupted' = [interrupted EXCEPT ![Comic(p)] = FALSE]
    /\ pass' = [pass EXCEPT ![p] =
                  IF pass[p].idx < Len(pass[p].comics)
                  THEN NextCrawl(pass[p].comics, pass[p].idx + 1)
                  ELSE [Idle EXCEPT !.pc = "done", !.comics = pass[p].comics,
                                    !.idx = pass[p].idx]]
    /\ UNCHANGED <<frontpage, homepage, remote, sources, images, files, redownloaded>>
    /\ UNCHANGED <<workerVars, scheduleVars, dateVars, postVars, restVars>>

\* The same failure on a connection that rolls the open transaction back.
FetchFailsRollback(p) ==
    /\ pass[p].pc \in {"fetch_latest", "download", "follow"}
    /\ interrupted' = [interrupted EXCEPT ![Comic(p)] = @ \/ pass[p].inserted > 0]
    /\ images' =
          LET kept == {r \in BagToSet(images) :
                          r.name # Comic(p) \/ r.date \in pass[p].known}
          IN  [r \in kept |-> images[r]]
    /\ pass' = [pass EXCEPT ![p] = Raised(p, "fetch")]
    /\ UNCHANGED <<frontpage, homepage, remote, sources, files, synced, redownloaded>>
    /\ UNCHANGED <<workerVars, scheduleVars, dateVars, postVars, restVars>>

\* A request or the parsing of its response raises inside _update_index_of_comic.
\* Neither _update_index_of_comic nor update_index catches it.
FetchFails(p) ==
    /\ pass[p].pc \in {"fetch_latest", "download", "follow"}
    /\ interrupted' = [interrupted EXCEPT ![Comic(p)] = @ \/ pass[p].inserted > 0]
    /\ pass' = [pass EXCEPT ![p] = Raised(p, "fetch")]
    /\ UNCHANGED <<frontpage, homepage, remote, sources, images, files, synced, redownloaded>>
    /\ UNCHANGED <<workerVars, scheduleVars, dateVars, postVars, restVars>>

\* The INSERT raises a sqlite3 error; it is not caught either.
InsertFails(p) ==
    /\ pass[p].pc = "index"
    /\ ~StopHere(p)
    /\ pass' = [pass EXCEPT ![p] = Raised(p, "storage")]
    /\ UNCHANGED <<frontpage, homepage, remote, sources, images, files, synced, interrupted, redownloaded>>
    /\ UNCHANGED <<workerVars, scheduleVars, dateVars, postVars, restVars>>

\* One step of the crawl of a comic in which nothing raises.
Progress(p) ==
    \/ SelectLatest(p)
    \/ FetchComicUrlLatest(p)
    \/ DownloadComic(p)
    \/ IndexComic(p)
    \/ FetchPrevious(p)
    \/ Commit(p)

\* One step of thread p in update_index.
Pass(p) ==
    \/ UpdateIndex(p)
    \/ SelectLatest(p)
    \/ FetchComicUrlLatest(p)
    \/ DownloadComic(p)
    \/ IndexComic(p)
    \/ FetchPrevious(p)
    \/ Commit(p)
    \/ FetchFails(p)
    \/ InsertFails(p)

----------------------------------------------------------------------------
\* database_worker and database_query (helper.py and comics.py)

\* The exceptions the except clause of database_worker names.
Caught(m) ==
    IF m = "helper" THEN {"OperationalError", "ProgrammingError"}
    ELSE {"OperationalError"}

\* cursor.execute(statement, args).fetchall() of a statement that succeeds.
Rows(statement, args) == IF statement = "SELECT" THEN <<args>> ELSE <<>>

\* Result(statement, args, rows); ticket names the request it answers.
Result(query) ==
    [none |-> FALSE, statement |-> query.statement, args |-> query.args,
     rows |-> Rows(query.statement, query.args), ticket |-> query.ticket]

\* The None the worker puts after a caught exception.
Failure(query) ==
    [none |-> TRUE, statement |-> None, args |-> <<>>, rows |-> <<>>, ticket |-> query.ticket]

NotCalling == [pc |-> "idle", ticket |-> 0, got |-> 0, rows |-> <<>>]

WorkerInit(m) ==
    /\ module = m
    /\ queries = <<>>
    /\ results = <<>>
    /\ worker = "running"
    /\ caller = [c \in Callers |-> NotCalling]
    /\ tickets = 0
    /\ executed = <<>>
    /\ posted = <<>>

\* The worker thread after start-up.  comics.init builds the Thread object and
\* never calls start() on it; helper.py leaves the start to its user, who is
\* taken to have started it.
Started(m) == IF m = "comics" THEN "created" ELSE "running"

\* The state of the queues after start-up of module m.
BotInit(m) ==
    /\ module = m
    /\ queries = <<>>
    /\ results = <<>>
    /\ worker = Started(m)
    /\ caller = [c \in Callers |-> NotCalling]
    /\ tickets = 0
    /\ executed = <<>>
    /\ posted = <<>>

\* queue.Queue.get(): the oldest item.
QueueGet(q) == Head(q)

\* database_query up to results.get(): queries.put(Query(statement, args)).
DatabaseQueryPut(c, statement) ==
    /\ caller[c].pc # "waiting"
    /\ tickets < MaxRequests
    /\ tickets' = tickets + 1
    /\ queries' = Append(queries, [statement |-> statement, args |-> <<c>>, ticket |-> tickets + 1])
    /\ caller' = [caller EXCEPT ![c] = [NotCalling EXCEPT !.pc = "waiting", !.ticket = tickets + 1]]
    /\ UNCHANGED <<module, results, worker, executed, posted>>
    /\ UNCHANGED <<crawlVars, scheduleVars, dateVars, postVars, restVars>>

\* database_query from results.get(): return result.rows, or raise RuntimeError on None.
DatabaseQueryGet(c) ==
    /\ caller[c].pc = "waiting"
    /\ results # <<>>
    /\ LET result == QueueGet(results)
       IN  /\ results' = Tail(results)
           /\ caller' = [caller EXCEPT ![c].pc = IF result.none THEN "raised" ELSE "returned",
                                       ![c].got = result.ticket,
                                       ![c].rows = result.rows]
    /\ UNCHANGED <<module, queries, worker, tickets, executed, posted>>
    /\ UNCHANGED <<crawlVars, scheduleVars, dateVars, postVars, restVars>>

\* One turn of the loop of database_worker: queries.get(), execute, results.put().
\* An exception the except clause does not name leaves the function.
DatabaseWorker ==
    /\ worker = "running"
    /\ queries # <<>>
    /\ LET query == QueueGet(queries)
       IN  /\ queries' = Tail(queries)
           /\ \/ /\ results' = Append(results, Result(query))
                 /\ executed' = Append(executed, [ticket |-> query.ticket, outcome |-> "rows"])
                 /\ posted' = Append(posted, query.ticket)
                 /\ UNCHANGED worker
              \/ \E e \in Errors :
                    /\ executed' = Append(executed, [ticket |-> query.ticket, outcome |-> e])
                    /\ IF e \in Caught(module)
                       THEN /\ results' = Append(results, Failure(query))
                            /\ posted' = Append(posted, query.ticket)
                            /\ UNCHANGED worker
                       ELSE /\ worker' = "crashed"
                            /\ UNCHANGED <<results, posted>>
    /\ UNCHANGED <<module, caller, tickets>>
    /\ UNCHANGED <<crawlVars, scheduleVars, dateVars, postVars, restVars>>

----------------------------------------------------------------------------
\* The daily_posts relation: schedule, scheduling_enable, scheduling_disable

\* Number of rows of daily_posts with the given chat_id and name.
PostCount(chat_id, name) ==
    LET row == [chat_id |-> chat_id, name |-> name]
    IN  IF BagIn(row, daily_posts) THEN CopiesIn(row, daily_posts) ELSE 0

\* _is_comic_scheduled: "SELECT 1 FROM daily_posts WHERE chat_id = ? AND name = ?"
IsComicScheduled(chat_id, name) == PostCount(chat_id, name) > 0

\* The INSERT on a table that declares no key.
InsertUnchecked(chat_id, name) ==
    daily_posts (+) SetToBag({[chat_id |-> chat_id, name |-> name]})

\* "INSERT INTO daily_posts values (?, ?)" under UNIQUE(chat_id, name): the
\* relation after the statement; a conflicting row is not inserted.
InsertDailyPost(chat_id, name) ==
    IF IsComicScheduled(chat_id, name)
    THEN daily_posts
    ELSE daily_posts (+) SetToBag({[chat_id |-> chat_id, name |-> name]})

\* "DELETE FROM daily_posts WHERE chat_id = ? AND name = ?"
DeleteDailyPost(chat_id, name) ==
    LET row == [chat_id |-> chat_id, name |-> name]
    IN  [r \in BagToSet(daily_posts) \ {row} |-> daily_posts[r]]

NotHandling == [pc |-> "idle", chat_id |-> 0, name |-> None, scheduled |-> FALSE, raised |-> None]

ScheduleInit ==
    /\ daily_posts = EmptyBag
    /\ handler = [h \in Handlers |-> NotHandling]

\* scheduling_enable(chat_id, name); the INSERT raises IntegrityError on a
\* pair that is already there.
SchedulingEnable(h, chat_id, name) ==
    /\ handler[h].pc = "idle"
    /\ daily_posts' = InsertDailyPost(chat_id, name)
    /\ handler' = [handler EXCEPT ![h] =
                     [NotHandling EXCEPT !.chat_id = chat_id, !.name = name,
                        !.raised = IF IsComicScheduled(chat_id, name)
                                   THEN "IntegrityError" ELSE None]]
    /\ UNCHANGED <<crawlVars, workerVars, dateVars, postVars, restVars>>

\* scheduling_disable(chat_id, name)
SchedulingDisable(h, chat_id, name) ==
    /\ handler[h].pc = "idle"
    /\ daily_posts' = DeleteDailyPost(chat_id, name)
    /\ handler' = [handler EXCEPT ![h] =
                     [NotHandling EXCEPT !.chat_id = chat_id, !.name = name]]
    /\ UNCHANGED <<crawlVars, workerVars, dateVars, postVars, restVars>>

\* schedule up to the test: update.message.chat_id raises AttributeError on an
\* update without a message; otherwise _is_comic_scheduled is read.
Schedule(h, chat_id, name, has_message) ==
    /\ handler[h].pc = "idle"
    /\ handler' = [handler EXCEPT ![h] =
                     IF has_message
                     THEN [NotHandling EXCEPT !.pc = "scheduled?", !.chat_id = chat_id, !.name = name,
                                             !.scheduled = IsComicScheduled(chat_id, name)]
                     ELSE [NotHandling EXCEPT !.raised = "AttributeError"]]
    /\ UNCHANGED daily_posts
    /\ UNCHANGED <<crawlVars, workerVars, dateVars, postVars, restVars>>

\* schedule from the test on: scheduling_disable or scheduling_enable.
ScheduleToggle(h) ==
    /\ handler[h].pc = "scheduled?"
    /\ LET chat_id == handler[h].chat_id
           name == handler[h].name
       IN  IF handler[h].scheduled
           THEN /\ daily_posts' = DeleteDailyPost(chat_id, name)
                /\ handler' = [handler EXCEPT ![h].pc = "idle"]
           ELSE /\ daily_posts' = InsertDailyPost(chat_id, name)
                /\ handler' = [handler EXCEPT ![h].pc = "idle",
                                  ![h].raised = IF IsComicScheduled(chat_id, name)
                                                THEN "IntegrityError" ELSE None]
    /\ UNCHANGED <<crawlVars, workerVars, dateVars, postVars, restVars>>

----------------------------------------------------------------------------
\* download_comic: the date of a page

\* The years of the dates and of the clock.
Years == {2023, 2024}

LeapYear(y) == (y % 4 = 0 /\ y % 100 # 0) \/ y % 400 = 0

DaysInMonth(y, m) ==
    IF m = 2 THEN (IF LeapYear(y) THEN 29 ELSE 28)
    ELSE IF m \in {4, 6, 9, 11} THEN 30 ELSE 31

ValidDate(y, m, d) == m \in 1..12 /\ d \in 1..DaysInMonth(y, m)

\* A datetime.date, or the ValueError raised instead of one.
Date(y, m, d) == [raised |-> None, year |-> y, month |-> m, day |-> d]

ValueError == [raised |-> "ValueError", year |-> 0, month |-> 0, day |-> 0]

NotParsed == [raised |-> "pending", year |-> 0, month |-> 0, day |-> 0]

\* datetime.datetime.strptime(text, format).date() for the two formats of
\* download_comic.  A text is the sequence of its numeric fields; "%d.%m.%Y"
\* matches three fields and "%d.%m." two.  A format without %Y gives the
\* year 1900, and the day is validated against that year.
Strptime(text, format) ==
    LET fields == IF format = "%d.%m.%Y" THEN 3 ELSE 2
        year == IF format = "%d.%m.%Y" THEN text[3] ELSE 1900
    IN  IF Len(text) # fields THEN ValueError
        ELSE IF ~ValidDate(year, text[2], text[1]) THEN ValueError
        ELSE Date(year, text[2], text[1])

\* date.replace(year=...)
ReplaceYear(d, y) ==
    IF ValidDate(y, d.month, d.day) THEN Date(y, d.month, d.day) ELSE ValueError

\* The try/except of download_comic.
ParseDate(text, clock) ==
    IF Strptime(text, "%d.%m.%Y") # ValueError THEN Strptime(text, "%d.%m.%Y")
    ELSE IF Strptime(text, "%d.%m.") = ValueError THEN ValueError
    ELSE ReplaceYear(Strptime(text, "%d.%m."), clock)

\* The date texts of the site: a valid day of the current year without its
\* year, or a valid day with its year.
DateTexts(clock) ==
    {t \in {<<d, m>> : d \in 1..31, m \in 1..12} : ValidDate(clock, t[2], t[1])}
    \cup {t \in {<<d, m, y>> : d \in 1..31, m \in 1..12, y \in Years} :
             ValidDate(t[3], t[2], t[1])}

DateInit ==
    /\ date_text = <<1, 1>>
    /\ today = 2024
    /\ parsed_date = NotParsed

\* download_comic up to the parsed date.
DownloadComicDate ==
    /\ parsed_date = NotParsed
    /\ parsed_date' = ParseDate(date_text, today)
    /\ UNCHANGED <<date_text, today>>
    /\ UNCHANGED <<crawlVars, workerVars, scheduleVars, postVars, restVars>>

----------------------------------------------------------------------------
\* post_comic_of_the_day and random_post

NotPosted == [pc |-> "idle", raised |-> None, sent |-> {}, today_str |-> 0]

NotPicked == [pc |-> "idle", raised |-> None, name |-> None, entry |-> NoRow]

PostInit ==
    /\ daily = NotPosted
    /\ random = NotPicked

\* The values handed to cursor.execute as parameters: a str, or a row tuple
\* as fetchall() returns it.
Str(s) == [str |-> s]

Tuple(t) == [tuple |-> t]

\* sqlite3 binds a str; for a tuple it raises "type 'tuple' is not supported"
\* (ProgrammingError; InterfaceError before Python 3.11).
SqlSupported(value) == DOMAIN value = {"str"}

\* "SELECT name FROM sources" ... fetchall(): one 1-tuple per row.
SelectNames == {Tuple(<<r.name>>) : r \in sources}

\* The orders in which fetchall() may return a set of rows.
Orders(rows) ==
    {order \in [1..Cardinality(rows) -> rows] : {order[i] : i \in DOMAIN order} = rows}

\* "SELECT chat_id FROM daily_posts WHERE name = ?"
SelectChatIds(name) == {r.chat_id : r \in {x \in BagToSet(daily_posts) : x.name = name}}

Posting(pc, raised, sent, today_str) ==
    [pc |-> pc, raised |-> raised, sent |-> sent, today_str |-> today_str]

\* The loop of post_comic_of_the_day over the rows of sources.  The loop
\* variable, a row, is the parameter of the SELECT on images; fetchone() of
\* that SELECT is unpacked, which raises TypeError when it is None.
RECURSIVE PostLoop(_, _, _)
PostLoop(comics, today_str, sent) ==
    IF comics = <<>> THEN Posting("done", None, sent, today_str)
    ELSE LET name == Head(comics)
         IN  IF ~SqlSupported(name) THEN Posting("failed", "ProgrammingError", sent, today_str)
             ELSE IF StoredDates(name.str) = {} THEN Posting("failed", "TypeError", sent, today_str)
             ELSE IF LatestStoredDate(name.str) # <<today_str>>
                  THEN PostLoop(Tail(comics), today_str, sent)
             ELSE PostLoop(Tail(comics), today_str,
                           sent \cup {[chat_id |-> chat_id, name |-> name.str, date |-> today_str] :
                                         chat_id \in SelectChatIds(name.str)})

\* post_comic_of_the_day, run by the job queue on the day today_str.
PostComicOfTheDay(today_str) ==
    /\ \E comics \in Orders(SelectNames) : daily' = PostLoop(comics, today_str, {})
    /\ UNCHANGED random
    /\ UNCHANGED <<crawlVars, workerVars, scheduleVars, dateVars, restVars>>

\* random_post with callback data name: "... WHERE name = ? ORDER BY RANDOM()
\* LIMIT 1" ... fetchone(), unpacked.
RandomPost(name) ==
    /\ LET rows == {x \in BagToSet(images) : x.name = name}
       IN  IF rows = {}
           THEN random' = [pc |-> "failed", raised |-> "TypeError", name |-> name, entry |-> NoRow]
           ELSE \E row \in rows :
                   random' = [pc |-> "done", raised |-> None, name |-> name, entry |-> <<row>>]
    /\ UNCHANGED daily
    /\ UNCHANGED <<crawlVars, workerVars, scheduleVars, dateVars, restVars>>

----------------------------------------------------------------------------
\* comics.handler_conversation

\* The callback data of the buttons: f"{Command.SCHEDULE_MENU}",
\* f"{Command.RANDOM_MENU}", f"{Command.CANCEL}" and the comic names.
CommandScheduleMenu == "1"

CommandRandomMenu == "2"

CommandCancel == "3"

CallbackData == {CommandScheduleMenu, CommandRandomMenu, CommandCancel} \cup Comics

\* A CallbackQueryHandler without a pattern handles every callback.
AnyData == ""

CallbackQueryHandler(callback, pattern) == [callback |-> callback, pattern |-> pattern]

\* The SCHEDULE state with its two handlers in the other order.
ScheduleBeforeCancel(state) ==
    IF state = "MENU"
    THEN <<CallbackQueryHandler("random_menu", CommandRandomMenu),
           CallbackQueryHandler("schedule_menu", CommandScheduleMenu),
           CallbackQueryHandler("cancel", CommandCancel)>>
    ELSE IF state = "SCHEDULE"
    THEN <<CallbackQueryHandler("schedule", AnyData),
           CallbackQueryHandler("cancel", CommandCancel)>>
    ELSE IF state = "RANDOM"
    THEN <<CallbackQueryHandler("cancel", CommandCancel),
           CallbackQueryHandler("random_post", AnyData)>>
    ELSE <<>>

\* states= of handler_conversation: the handlers of a state, in order.
StateHandlers(state) ==
    IF state = "MENU"
    THEN <<CallbackQueryHandler("random_menu", CommandRandomMenu),
           CallbackQueryHandler("schedule_menu", CommandScheduleMenu),
           CallbackQueryHandler("cancel", CommandCancel)>>
    ELSE IF state = "SCHEDULE"
    THEN <<CallbackQueryHandler("cancel", CommandCancel),
           CallbackQueryHandler("schedule", AnyData)>>
    ELSE IF state = "RANDOM"
    THEN <<CallbackQueryHandler("cancel", CommandCancel),
           CallbackQueryHandler("random_post", AnyData)>>
    ELSE <<>>

\* re.match(f"^{pattern}$", data)
Matches(pattern, data) == pattern = AnyData \/ pattern = data

\* The first handler of the list that accepts the callback, None without one.
RECURSIVE FirstMatch(_, _)
FirstMatch(handlers, data) ==
    IF handlers = <<>> THEN None
    ELSE IF Matches(Head(handlers).pattern, data) THEN Head(handlers).callback
    ELSE FirstMatch(Tail(handlers), data)

\* The callback the conversation in the given state runs for a button press.
Dispatch(state, data) == FirstMatch(StateHandlers(state), data)

Conversation(state, data, handled, raised) ==
    [state |-> state, data |-> data, handled |-> handled, raised |-> raised]

ConversationInit == conversation = Conversation("END", None, None, None)

\* entry_points: the command /comics runs start, which shows the menu.
ComicsStart ==
    /\ conversation.state = "END"
    /\ conversation' = Conversation("MENU", None, "start", None)
    /\ UNCHANGED <<singleVars, groupVars, stickerVars>>
    /\ UNCHANGED <<crawlVars, workerVars, scheduleVars, dateVars, postVars>>

\* fallbacks: a message in a running conversation runs helper.confused.
ComicsMessage ==
    /\ conversation.state # "END"
    /\ conversation' = Conversation("END", None, "confused", None)
    /\ UNCHANGED <<singleVars, groupVars, stickerVars>>
    /\ UNCHANGED <<crawlVars, workerVars, scheduleVars, dateVars, postVars>>

\* A button press in a running conversation.  The update is a callback query,
\* so update.message is None: random_menu, schedule_menu and schedule raise
\* AttributeError on it, schedule_menu after _is_comic_scheduled has been
\* given the row tuple of each source.  A handler that raises leaves the
\* state of the conversation as it is.
ComicsCallback(data) ==
    /\ conversation.state # "END"
    /\ Dispatch(conversation.state, data) # None
    /\ LET callback == Dispatch(conversation.state, data)
           Stay(error) == Conversation(conversation.state, data, callback, error)
       IN  IF callback = "cancel"
           THEN /\ conversation' = Conversation("END", data, callback, None)
                /\ UNCHANGED random
           ELSE IF callback = "schedule_menu"
           THEN /\ conversation' = Stay(IF sources # {} THEN "ProgrammingError"
                                        ELSE "AttributeError")
                /\ UNCHANGED random
           ELSE IF callback \in {"random_menu", "schedule"}
           THEN /\ conversation' = Stay("AttributeError")
                /\ UNCHANGED random
           ELSE LET rows == {x \in BagToSet(images) : x.name = data}
                IN  IF rows = {}
                    THEN /\ conversation' = Stay("TypeError")
                         /\ random' = [pc |-> "failed", raised |-> "TypeError",
                                       name |-> data, entry |-> NoRow]
                    ELSE /\ conversation' = Conversation("END", data, callback, None)
                         /\ \E row \in rows :
                               random' = [pc |-> "done", raised |-> None,
                                          name |-> data, entry |-> <<row>>]
    /\ UNCHANGED daily
    /\ UNCHANGED <<singleVars, groupVars, stickerVars>>
    /\ UNCHANGED <<crawlVars, workerVars, scheduleVars, dateVars>>

----------------------------------------------------------------------------
\* stickers.handler_conversation
\*
\* One user talks to the bot in two chats.  The conversation is kept per chat
\* and user, context.user_data per user, so both conversations share it.  The
\* name of the user's sticker set in a chat is the same whether it comes from
\* chat_data or from the hash of chat and user, so a set is named by its chat.

StickerChats == {"g1", "g2"}

\* What Telegram may answer to create_new_sticker_set / add_sticker_to_set:
\* success, success followed by an exception in get_sticker_set or
\* reply_sticker, BadRequest "Invalid sticker emojis" or "Peer_id_invalid", or
\* another BadRequest.
Answers == {"ok", "ok_then_raises", "retry", "unexpected"}

NoCall == [chat |-> None, method |-> None, answer |-> None, found |-> FALSE]

StickersInit ==
    /\ sticker_state = [c \in StickerChats |-> "END"]
    /\ user_data = {}
    /\ sticker_sets = {}
    /\ found = [c \in StickerChats |-> FALSE]
    /\ bot_call = NoCall

\* entry_points: the command /stickers runs start.
StickersStart(c) ==
    /\ sticker_state[c] = "END"
    /\ sticker_state' = [sticker_state EXCEPT ![c] = "MENU"]
    /\ UNCHANGED <<user_data, sticker_sets, found, bot_call>>
    /\ UNCHANGED <<singleVars, groupVars, conversationVars>>
    /\ UNCHANGED <<crawlVars, workerVars, scheduleVars, dateVars, postVars>>

\* fallbacks: an update no handler of the state accepts runs helper.confused,
\* which replies and returns END.
StickersConfused(c) ==
    /\ sticker_state[c] # "END"
    /\ sticker_state' = [sticker_state EXCEPT ![c] = "END"]
    /\ UNCHANGED <<user_data, sticker_sets, found, bot_call>>
    /\ UNCHANGED <<singleVars, groupVars, conversationVars>>
    /\ UNCHANGED <<crawlVars, workerVars, scheduleVars, dateVars, postVars>>

\* _sticker_set_exists: get_sticker_set of the set's name.
StickerSetExists(c) == c \in sticker_sets

\* add_sticker_start
AddStickerStart(c) ==
    /\ sticker_state[c] = "MENU"
    /\ found' = [found EXCEPT ![c] = StickerSetExists(c)]
    /\ sticker_state' = [sticker_state EXCEPT ![c] =
                            IF StickerSetExists(c) THEN "ADD_STICKER_PHOTO"
                            ELSE "ADD_STICKER_SET_TITLE"]
    /\ UNCHANGED <<user_data, sticker_sets, bot_call>>
    /\ UNCHANGED <<singleVars, groupVars, conversationVars>>
    /\ UNCHANGED <<crawlVars, workerVars, scheduleVars, dateVars, postVars>>

\* add_sticker_set_title
AddStickerSetTitle(c) ==
    /\ sticker_state[c] = "ADD_STICKER_SET_TITLE"
    /\ user_data' = user_data \cup {"sticker_set_title"}
    /\ sticker_state' = [sticker_state EXCEPT ![c] = "ADD_STICKER_PHOTO"]
    /\ UNCHANGED <<sticker_sets, found, bot_call>>
    /\ UNCHANGED <<singleVars, groupVars, conversationVars>>
    /\ UNCHANGED <<crawlVars, workerVars, scheduleVars, dateVars, postVars>>

\* add_sticker_photo, when the download, the conversion and the upload succeed.
AddStickerPhoto(c) ==
    /\ sticker_state[c] = "ADD_STICKER_PHOTO"
    /\ user_data' = user_data \cup {"sticker_file_id"}
    /\ sticker_state' = [sticker_state EXCEPT ![c] = "ADD_STICKER_EMOJI"]
    /\ UNCHANGED <<sticker_sets, found, bot_call>>
    /\ UNCHANGED <<singleVars, groupVars, conversationVars>>
    /\ UNCHANGED <<crawlVars, workerVars, scheduleVars, dateVars, postVars>>

\* add_sticker_emoji: a stored title asks for a new set, otherwise the sticker
\* is added to the existing one.
BotMethod(data) ==
    IF "sticker_set_title" \in data THEN "create_new_sticker_set" ELSE "add_sticker_to_set"

\* Telegram creates a set only under a free name and adds only to a set that
\* exists; any other answer is possible to either call.
Possible(c, method, answer) ==
    answer \in {"ok", "ok_then_raises"} =>
        (method = "create_new_sticker_set" <=> c \notin sticker_sets)

\* add_sticker_emoji: the deletions before the return of END.
Forget(data) == data \ {"sticker_file_id", "sticker_set_title"}

\* add_sticker_emoji.  Reading user_data['sticker_file_id'] raises KeyError
\* when the key is missing; an exception leaves the conversation where it is.
AddStickerEmoji(c, answer) ==
    /\ sticker_state[c] = "ADD_STICKER_EMOJI"
    /\ IF "sticker_file_id" \notin user_data
       THEN /\ answer = "unexpected"
            /\ bot_call' = [chat |-> c, method |-> "KeyError", answer |-> None,
                            found |-> found[c]]
            /\ UNCHANGED <<sticker_state, user_data, sticker_sets>>
       ELSE /\ Possible(c, BotMethod(user_data), answer)
            /\ bot_call' = [chat |-> c, method |-> BotMethod(user_data), answer |-> answer,
                            found |-> found[c]]
            /\ sticker_sets' = IF answer \in {"ok", "ok_then_raises"}
                               THEN sticker_sets \cup {c} ELSE sticker_sets
            /\ user_data' = IF answer \in {"ok", "unexpected"}
                            THEN Forget(user_data) ELSE user_data
            /\ sticker_state' = [sticker_state EXCEPT ![c] =
                                    IF answer \in {"ok", "unexpected"} THEN "END" ELSE @]
    /\ UNCHANGED found
    /\ UNCHANGED <<singleVars, groupVars, conversationVars>>
    /\ UNCHANGED <<crawlVars, workerVars, scheduleVars, dateVars, postVars>>

----------------------------------------------------------------------------
\* database_query_single (helper.py and comics.py)

\* Largest number of rows a statement returns.
MaxRows == 2

\* The rows a statement may return: tuples of one or two columns.
RowValues == {<<1>>, <<2>>, <<1, 1>>, <<1, 2>>, <<2, 1>>}

RECURSIVE RowLists(_)
RowLists(n) ==
    IF n = 0 THEN {<<>>}
    ELSE RowLists(n - 1) \cup {Append(rows, row) : rows \in RowLists(n - 1), row \in RowValues}

\* The items results.get() may return: None after a caught exception, or a
\* Result with the rows of fetchall().
Replies ==
    {[none |-> TRUE, rows |-> <<>>]} \cup {[none |-> FALSE, rows |-> rows] : rows \in RowLists(MaxRows)}

NotAsked == [pc |-> "idle", raised |-> None, returned |-> None, value |-> <<>>]

\* What database_query_single returns or raises.  returned names the shape of
\* the value: None, the only element of the row, or the row.
Returned(kind, value) == [pc |-> "done", raised |-> None, returned |-> kind, value |-> value]

Raises(error) == [pc |-> "done", raised |-> error, returned |-> None, value |-> <<>>]

\* The test on rows before rows[0]: `not rows` in helper.py, `rows is None`
\* in comics.py, where rows is the list of fetchall() and never None.
NoRows(m, rows) == IF m = "helper" THEN rows = <<>> ELSE FALSE

\* database_query_single of module m when results.get() returns result.
DatabaseQuerySingle(m, result) ==
    IF result.none THEN Raises("RuntimeError")
    ELSE IF NoRows(m, result.rows) THEN Returned("None", <<>>)
    ELSE IF result.rows = <<>> THEN Raises("IndexError")
    ELSE LET row == result.rows[1]
         IN  IF Len(row) = 1 THEN Returned("element", <<row[1]>>) ELSE Returned("row", row)

SingleInit ==
    /\ reply = [none |-> FALSE, rows |-> <<>>]
    /\ single = NotAsked

\* One call of database_query_single.
DatabaseQuerySingleCall ==
    /\ single = NotAsked
    /\ single' = DatabaseQuerySingle(module, reply)
    /\ UNCHANGED reply
    /\ UNCHANGED <<crawlVars, workerVars, scheduleVars, dateVars, postVars, groupVars,
                   conversationVars, stickerVars>>

----------------------------------------------------------------------------
\* group_elements (helper.py)

\* Longest list grouped.
MaxLen == 3

\* Largest group size.
MaxAmount == 3

\* The elements of the lists.
Elements == {"a", "b", "c"}

RECURSIVE Lists(_)
Lists(n) ==
    IF n = 0 THEN {<<>>}
    ELSE Lists(n - 1) \cup {Append(l, x) : l \in Lists(n - 1), x \in Elements}

\* A group size that is never left over.
RemainingNone(list, amount) == 0

\* remaining = len(flat_list) % amount_per_group
Remaining(list, amount) == Len(list) % amount

\* list(zip(*[iter(flat_list)] * amount_per_group)): consecutive full groups;
\* zip stops when the iterator cannot fill a group.
Zipped(list, amount) ==
    [i \in 1..(Len(list) \div amount) |-> SubSeq(list, (i - 1) * amount + 1, i * amount)]

\* group_elements(flat_list, amount_per_group)
GroupElements(list, amount) ==
    IF Remaining(list, amount) # 0
    THEN Append(Zipped(list, amount),
                SubSeq(list, Len(list) - Remaining(list, amount) + 1, Len(list)))
    ELSE Zipped(list, amount)

NotGrouped == [pc |-> "idle", groups |-> <<>>]

GroupInit ==
    /\ flat_list = <<>>
    /\ amount_per_group = 1
    /\ grouped = NotGrouped

\* One call of group_elements.
GroupElementsCall ==
    /\ grouped = NotGrouped
    /\ grouped' = [pc |-> "done", groups |-> GroupElements(flat_list, amount_per_group)]
    /\ UNCHANGED <<flat_list, amount_per_group>>
    /\ UNCHANGED <<crawlVars, workerVars, scheduleVars, dateVars, postVars, singleVars,
                   conversationVars, stickerVars>>

RestInit == SingleInit /\ GroupInit /\ ConversationInit /\ StickersInit

----------------------------------------------------------------------------
\* Specifications

\* comics.init: update_index runs on one thread, pass after pass, over a
\* frontpage listing both comics.
Init ==
    /\ CrawlInit(<<"Fingerpori", "FokIt">>)
    /\ WorkerInit("comics")
    /\ ScheduleInit
    /\ DateInit
    /\ PostInit
    /\ RestInit

Next ==
    \/ \E c \in Comics : Publish(c)
    \/ Pass("t1")

Spec == Init /\ [][Next]_vars

\* The same, with the thread of update_index scheduled: a step of the crawl
\* that can be taken without raising is eventually taken.
SpecFair == Spec /\ WF_vars(Progress("t1"))

\* Refresh passes of one thread while the frontpage changes the urls it lists.
NextSources ==
    \/ \E c \in Comics : Relist(c)
    \/ Pass("t1")

SpecSources == Init /\ [][NextSources]_vars

\* download_comic parses the date text of one page, for every text the site
\* can show and every year of the clock.
InitDate ==
    /\ CrawlInit(<<"Fingerpori", "FokIt">>)
    /\ WorkerInit("comics")
    /\ ScheduleInit
    /\ PostInit
    /\ RestInit
    /\ today \in Years
    /\ date_text \in DateTexts(today)
    /\ parsed_date = NotParsed

NextDate == DownloadComicDate

SpecDate == InitDate /\ [][NextDate]_vars

\* Refresh passes over a frontpage listing one comic, with the daily post, the
\* random post and the subscription toggles of one chat handler in between.
InitPost ==
    /\ CrawlInit(<<"Fingerpori">>)
    /\ WorkerInit("comics")
    /\ ScheduleInit
    /\ DateInit
    /\ PostInit
    /\ RestInit

NextPost ==
    \/ \E c \in Comics : Publish(c)
    \/ Pass("t1")
    \/ \E today_str \in 1..MaxPages : PostComicOfTheDay(today_str)
    \/ \E name \in Comics : RandomPost(name)
    \/ \E chat_id \in Chats :
          \/ SchedulingEnable("h1", chat_id, "Fingerpori")
          \/ SchedulingDisable("h1", chat_id, "Fingerpori")

SpecPost == InitPost /\ [][NextPost]_vars

\* Two threads run update_index at the same time over a frontpage listing one comic.
InitConcurrent ==
    /\ CrawlInit(<<"Fingerpori">>)
    /\ WorkerInit("comics")
    /\ ScheduleInit
    /\ DateInit
    /\ PostInit
    /\ RestInit

NextConcurrent ==
    \/ \E c \in Comics : Publish(c)
    \/ \E p \in Passes : Pass(p)

SpecConcurrent == InitConcurrent /\ [][NextConcurrent]_vars

\* The worker of either module serves the threads that call database_query.
InitWorker ==
    /\ CrawlInit(<<"Fingerpori", "FokIt">>)
    /\ \E m \in {"helper", "comics"} : WorkerInit(m)
    /\ ScheduleInit
    /\ DateInit
    /\ PostInit
    /\ RestInit

NextWorker ==
    \/ \E c \in Callers : \E statement \in Statements : DatabaseQueryPut(c, statement)
    \/ \E c \in Callers : DatabaseQueryGet(c)
    \/ DatabaseWorker

SpecWorker == InitWorker /\ [][NextWorker]_vars

\* The same threads after start-up: comics.init for comics.py, a started
\* worker for helper.py.
InitBot ==
    /\ CrawlInit(<<"Fingerpori", "FokIt">>)
    /\ \E m \in {"helper", "comics"} : BotInit(m)
    /\ ScheduleInit
    /\ DateInit
    /\ PostInit
    /\ RestInit

SpecBot == InitBot /\ [][NextWorker]_vars

\* database_query_single of either module, for every item the worker may
\* have put on results.
InitSingle ==
    /\ CrawlInit(<<"Fingerpori", "FokIt">>)
    /\ \E m \in {"helper", "comics"} : WorkerInit(m)
    /\ ScheduleInit
    /\ DateInit
    /\ PostInit
    /\ reply \in Replies
    /\ single = NotAsked
    /\ GroupInit
    /\ ConversationInit
    /\ StickersInit

NextSingle == DatabaseQuerySingleCall

SpecSingle == InitSingle /\ [][NextSingle]_vars

\* group_elements for every list of up to MaxLen elements and every group
\* size from 1 to MaxAmount.
InitGroup ==
    /\ CrawlInit(<<"Fingerpori", "FokIt">>)
    /\ WorkerInit("comics")
    /\ ScheduleInit
    /\ DateInit
    /\ PostInit
    /\ SingleInit
    /\ ConversationInit
    /\ StickersInit
    /\ flat_list \in Lists(MaxLen)
    /\ amount_per_group \in 1..MaxAmount
    /\ grouped = NotGrouped

NextGroup == GroupElementsCall

SpecGroup == InitGroup /\ [][NextGroup]_vars

\* The comics conversation of one chat, with refresh passes and subscription
\* changes of that chat going on.
NextComics ==
    \/ ComicsStart
    \/ ComicsMessage
    \/ \E data \in CallbackData : ComicsCallback(data)
    \/ Pass("t1")
    \/ \E name \in Comics :
          \/ SchedulingEnable("h1", 1, name)
          \/ SchedulingDisable("h1", 1, name)

SpecComics == Init /\ [][NextComics]_vars

\* Handler threads change the schedule of chats.
NextStickers ==
    \/ \E c \in StickerChats : StickersStart(c)
    \/ \E c \in StickerChats : StickersConfused(c)
    \/ \E c \in StickerChats : AddStickerStart(c)
    \/ \E c \in StickerChats : AddStickerSetTitle(c)
    \/ \E c \in StickerChats : AddStickerPhoto(c)
    \/ \E c \in StickerChats, answer \in Answers : AddStickerEmoji(c, answer)

SpecStickers == Init /\ [][NextStickers]_vars

NextSchedule ==
    \/ \E h \in Handlers : \E chat_id \in Chats : \E name \in Comics :
          \/ SchedulingEnable(h, chat_id, name)
          \/ SchedulingDisable(h, chat_id, name)
          \/ \E has_message \in BOOLEAN : Schedule(h, chat_id, name, has_message)
    \/ \E h \in Handlers : ScheduleToggle(h)

SpecSchedule == Init /\ [][NextSchedule]_vars

----------------------------------------------------------------------------
\* Properties of the crawl

\* C1: in every reachable state, also with two refresh passes running at the
\* same time for the same comic, images holds at most one row per (name, date).
C1_UniqueEntryPerDate ==
    \A c \in Comics : \A d \in 1..MaxPages : RowCount(c, d) <= 1

\* Thread p's crawl of a comic has run to its end (break or end of history)
\* without an exception and stands before conn.commit().
CrawlEnded(p) == pass[p].pc = "commit"

\* C3: a crawl that starts after a crawl of the same comic has completed, and
\* finds the remote latest page unchanged since that crawl, inserts no row.
C3_SecondRefreshAddsNothing ==
    \A p \in Passes :
        (CrawlEnded(p) /\ pass[p].resync # 0 /\ pass[p].top = pass[p].resync)
            => pass[p].inserted = 0

C3_Witness ==
    \E p \in Passes :
        /\ CrawlEnded(p) /\ pass[p].resync = 2 /\ pass[p].top = 2
        /\ RowCount(Comic(p), 1) = 1 /\ RowCount(Comic(p), 2) = 1

\* The pages of a crawl's history, walked backward from its start page, that
\* precede the first page whose date was indexed when the crawl began.
Unindexed(p) ==
    {k \in 1..pass[p].top :
        \A j \in k..pass[p].top : PageDate(Comic(p), j) \notin pass[p].known}

\* The pages thread p's crawl has requested.
Requested(p) == pass[p].cur..pass[p].top

\* C4: a crawl over N not yet indexed pages followed by indexed ones writes
\* exactly N rows, one per unindexed page, and requests no page beyond the
\* first already indexed one.
C4_CrawlWritesExactlyTheNewPages ==
    \A p \in Passes :
        CrawlEnded(p) =>
            /\ pass[p].inserted = Cardinality(Unindexed(p))
            /\ \A k \in Unindexed(p) : RowCount(Comic(p), PageDate(Comic(p), k)) = 1
            /\ \A k \in Requested(p) :
                  k \in Unindexed(p) \/ k + 1 \in Unindexed(p) \/ k = pass[p].top

C4_Witness ==
    \E p \in Passes :
        /\ CrawlEnded(p)
        /\ pass[p].known = {1}
        /\ pass[p].top = MaxPages
        /\ pass[p].inserted = MaxPages - 1
        /\ pass[p].cur = 1

\* C5: the image of an already indexed (name, date) is never downloaded again.
C5_NoImageDownloadedAgain == redownloaded = {}

\* C6: the first crawl to complete after a fetch failure aborted a crawl that
\* had written rows leaves an entry for every date of the remote history.
C6_NextCrawlResumes ==
    \A p \in Passes :
        (CrawlEnded(p) /\ pass[p].resume)
            => \A k \in 1..pass[p].top : RowCount(Comic(p), PageDate(Comic(p), k)) >= 1

\* C7: a pass that has ended, with or without a failure, has crawled every
\* comic it listed.
C7_FailureDoesNotStopThePass ==
    \A p \in Passes :
        pass[p].pc \in {"done", "failed"} => pass[p].idx = Len(pass[p].comics)

----------------------------------------------------------------------------
\* Properties of the database worker

\* C2: a caller of database_query receives the result, or the failure signal,
\* of the request it submitted itself.
C2_CallerReceivesOwnResult ==
    \A c \in Callers :
        caller[c].pc \in {"returned", "raised"} => caller[c].got = caller[c].ticket

\* C8: whenever a statement fails with a storage-layer error the worker posts
\* a failure signal for that request and keeps running.
C8_StorageErrorIsSignalled ==
    /\ worker = "running"
    /\ \A i \in 1..Len(executed) :
          executed[i].outcome \in Errors
              => \E j \in 1..Len(posted) : posted[j] = executed[i].ticket

\* C9: the statements are executed in the order they were put on the queue,
\* and the worker has posted exactly one result per executed request, in that order.
C9_OneResultPerRequestInOrder ==
    /\ \A i \in 1..Len(executed) : executed[i].ticket = i
    /\ posted = [i \in 1..Len(executed) |-> executed[i].ticket]

----------------------------------------------------------------------------
\* Properties of the schedule

\* C10: in every reachable state daily_posts holds at most one row per
\* (chat_id, name).
C10_UniqueDailyPost ==
    \A chat_id \in Chats : \A name \in Comics : PostCount(chat_id, name) <= 1

\* An INSERT of a pair that is already subscribed has been refused, while
\* another pair is subscribed too.
C10_Witness ==
    \E h \in Handlers :
        /\ handler[h].raised = "IntegrityError"
        /\ PostCount(handler[h].chat_id, handler[h].name) = 1
        /\ BagCardinality(daily_posts) > 1

\* C12: a request that fails in the middle of a crawl takes no row out of
\* images: the rows the crawl inserted before it, and the rows of every other
\* comic, are all still there after the exception.
C12_AbortedCrawlKeepsItsRows ==
    [][\A p \in Passes :
          (pass[p].pc \in {"fetch_latest", "download", "follow"} /\ pass'[p].pc = "failed")
             => images' = images]_vars

\* A crawl that failed on its second page, with the row of its first page stored.
C12_Witness ==
    \E p \in Passes :
        /\ pass[p].pc = "failed"
        /\ pass[p].error = "fetch"
        /\ pass[p].idx >= 1
        /\ interrupted[Comic(p)]
        /\ synced[Comic(p)] = 0
        /\ StoredDates(Comic(p)) = {PageDate(Comic(p), MaxPages)}

\* C13: a crawl that starts with no row of its comic and ends without a
\* failure leaves exactly one row per remote page, and the latest stored date
\* is the date of the page it started from.
C13_FirstCrawlIndexesEveryPage ==
    \A p \in Passes :
        (CrawlEnded(p) /\ pass[p].known = {}) =>
            /\ pass[p].inserted = pass[p].top
            /\ StoredDates(Comic(p)) = {PageDate(Comic(p), k) : k \in 1..pass[p].top}
            /\ \A k \in 1..pass[p].top : RowCount(Comic(p), PageDate(Comic(p), k)) = 1
            /\ LatestStoredDate(Comic(p)) = <<PageDate(Comic(p), pass[p].top)>>

\* A first crawl over a history of MaxPages pages has ended.
C13_Witness ==
    \E p \in Passes :
        /\ CrawlEnded(p)
        /\ pass[p].known = {}
        /\ pass[p].top = MaxPages
        /\ pass[p].inserted = MaxPages

\* C14: a crawl that has started comes to its end unless a request or a
\* statement raises, and it ends either on a page whose date is the stop date
\* or after the page that has no previous link.
C14_CrawlTerminates ==
    \A p \in Passes :
        /\ (pass[p].pc = "select") ~> (pass[p].pc \in {"commit", "failed"})
        /\ [](CrawlEnded(p) => (StopHere(p) \/ pass[p].cur = 1))

\* A crawl has ended after the oldest page of a history of MaxPages pages.
C14_Witness ==
    \E p \in Passes :
        /\ CrawlEnded(p)
        /\ ~StopHere(p)
        /\ pass[p].cur = 1
        /\ pass[p].top = MaxPages

\* C15: sources never holds two rows with the same name, and a refresh pass
\* that lists a name already registered leaves that name's row with the url
\* the frontpage lists now.
C15_OneSourcePerName ==
    /\ [](\A name \in Comics : Cardinality({r \in sources : r.name = name}) <= 1)
    /\ [][\A p \in Passes :
             (pass[p].pc # "select" /\ pass'[p].pc = "select" /\ pass'[p].idx = 1) =>
                 \A i \in 1..Len(frontpage) :
                     [name |-> frontpage[i], url |-> HomepageUrl(frontpage[i])] \in sources']_vars

\* A pass has just registered a comic again under another url.
C15_Witness ==
    \E p \in Passes :
        /\ pass[p].pc = "select"
        /\ pass[p].idx = 1
        /\ pass[p].replaced # {}
        /\ \A name \in pass[p].replaced :
               Cardinality({r \in sources : r.name = name}) = 1

\* C17: download_comic gives the date Y-M-D for the text "D.M." of a valid
\* day of the current year Y, and the date YYYY-M-D for the text "D.M.YYYY",
\* 29 February of a leap year included.
C17_DateTextIsNormalised ==
    parsed_date # NotParsed =>
        parsed_date = Date(IF Len(date_text) = 3 THEN date_text[3] ELSE today,
                    date_text[2], date_text[1])

\* C18: post_comic_of_the_day raises no error when a source has no entry
\* dated today or no entry at all: it sends nothing for that source and runs
\* to its end.
C18_DailyPostSkipsWithoutError ==
    daily.pc # "idle" => (daily.pc = "done" /\ daily.raised = None)

\* C19: random_post raises no error; it posts an entry of the requested comic
\* when images holds one, and posts nothing when it holds none.
C19_RandomPostOfRequestedComic ==
    random.pc # "idle" =>
        /\ random.raised = None
        /\ random.entry # NoRow => random.entry[1].name = random.name
        /\ random.entry = NoRow => StoredDates(random.name) = {}

\* C20: no step of a refresh, a daily post, a random post or a subscription
\* toggle removes a row of images or changes its name, date or filepath.
C20_StoredEntriesAreKept ==
    [][\A r \in BagToSet(images) :
          LET Same(b) == {x \in BagToSet(b) : x.name = r.name /\ x.date = r.date
                                                /\ x.filepath = r.filepath}
              Count(b) == BagCardinality([x \in Same(b) |-> b[x]])
          IN  Count(images') >= Count(images)]_vars

\* Rows of two dates are stored, and a daily post, a random post and a
\* subscription have happened.
C20_Witness ==
    /\ Cardinality(StoredDates("Fingerpori")) >= 2
    /\ daily.pc # "idle"
    /\ random.pc = "done"
    /\ daily_posts # EmptyBag

\* C16: the stop date of a crawl is the greatest date among the rows of images
\* that carry the crawled comic's name, or no date when there is no such row;
\* rows of other comics play no part.
C16_StopDateIsLatestOfThisComic ==
    \A p \in Passes :
        pass[p].pc = "fetch_latest" =>
            LET dates == {d \in 1..MaxPages :
                             \E r \in BagToSet(images) : r.name = Comic(p) /\ r.date = d}
            IN  /\ dates = {} => pass[p].latest = NoRow
                /\ dates # {} => /\ pass[p].latest # NoRow
                                 /\ pass[p].latest[1] \in dates
                                 /\ \A d \in dates : d <= pass[p].latest[1]

\* A crawl whose stop date is older than the latest date stored for another comic.
C16_Witness ==
    \E p \in Passes :
        /\ pass[p].pc = "fetch_latest"
        /\ pass[p].latest # NoRow
        /\ \E r \in BagToSet(images) : r.name # Comic(p) /\ r.date > pass[p].latest[1]

\* C11: scheduling_enable of a pair that is already subscribed, and
\* scheduling_disable of one that is not, leave the relation as it is and
\* raise no error.
C11_ToggleTwiceRaisesNothing ==
    \A h \in Handlers :
        /\ handler[h].raised # "IntegrityError"
        /\ (handler[h].pc = "idle" /\ handler[h].name # None /\ handler[h].raised = None)
              => PostCount(handler[h].chat_id, handler[h].name) <= 1

\* C21: in every state, also after a step of a crawl has raised, the filepath
\* of every row of images is the path of a file that has been written; files
\* that no row names may exist.
C21_FileWrittenBeforeRow ==
    \A r \in BagToSet(images) : r.filepath \in files

\* The INSERT of a page failed after its image was saved: the file is there,
\* no row names it, and the rows stored before all name written files.
C21_Witness ==
    \E p \in Passes :
        /\ pass[p].pc = "failed"
        /\ pass[p].error = "storage"
        /\ BagToSet(images) # {}
        /\ \E f \in files : \A r \in BagToSet(images) : r.filepath # f

\* C22: after start-up every caller blocked in database_query has its answer
\* on the way: for each waiting caller there is a result on results, or a
\* request on queries that a running worker will execute.  Without that a
\* caller never leaves results.get().
C22_EveryRequestIsAnswered ==
    Cardinality({c \in Callers : caller[c].pc = "waiting"})
        <= Len(results) + (IF worker = "running" THEN Len(queries) ELSE 0)

\* C23: a call of schedule for a chat and a comic raises nothing and, when it
\* ends, has turned the subscription of that pair into its opposite and left
\* every other pair as it was, also while another call of schedule for the
\* same pair is under way.
C23_ScheduleTogglesOnePair ==
    /\ [](\A h \in Handlers : handler[h].raised # "AttributeError")
    /\ [][\A h \in Handlers :
             (handler[h].pc = "scheduled?" /\ handler'[h].pc = "idle") =>
                 /\ handler'[h].raised = None
                 /\ \A chat_id \in Chats : \A name \in Comics :
                       IF chat_id = handler[h].chat_id /\ name = handler[h].name
                       THEN IsComicScheduled(chat_id, name)' = ~IsComicScheduled(chat_id, name)
                       ELSE PostCount(chat_id, name)' = PostCount(chat_id, name)]_vars

\* C24: a run of post_comic_of_the_day raises nothing and sends the comic of
\* a source to a chat exactly when the chat is subscribed to that source and
\* the latest row stored for the source is dated today; chats subscribed to
\* other sources only get nothing for it.
C24_SentIffSubscribedAndToday ==
    [][daily' # daily =>
          /\ daily'.raised = None
          /\ daily'.sent =
                {[chat_id |-> chat_id, name |-> name, date |-> daily'.today_str] :
                    chat_id \in Chats,
                    name \in {n \in {r.name : r \in sources} :
                                 LatestStoredDate(n) = <<daily'.today_str>>}}
                \cap {[chat_id |-> r.chat_id, name |-> r.name, date |-> daily'.today_str] :
                         r \in BagToSet(daily_posts)}]_vars

\* C25: database_query_single of either module returns None when the
\* statement gave no row, and raises exactly when the worker put None for a
\* caught storage error.
C25_EmptyResultIsNone ==
    single # NotAsked =>
        /\ (single.raised # None) <=> reply.none
        /\ (~reply.none /\ reply.rows = <<>>) => (single.raised = None /\ single.returned = "None")

RECURSIVE Concatenation(_)
Concatenation(groups) ==
    IF groups = <<>> THEN <<>> ELSE Head(groups) \o Concatenation(Tail(groups))

\* C29: the groups group_elements returns, concatenated in order, give the
\* list back; every group but the last has exactly amount_per_group elements
\* and the last has between one and amount_per_group.
C29_GroupsPartitionTheList ==
    grouped.pc = "done" =>
        LET groups == grouped.groups
        IN  /\ Concatenation(groups) = flat_list
            /\ \A i \in 1..Len(groups) :
                  /\ i < Len(groups) => Len(groups[i]) = amount_per_group
                  /\ Len(groups[i]) \in 1..amount_per_group

\* A list that does not split evenly has been grouped: full groups and a
\* shorter last one.
C29_Witness ==
    /\ grouped.pc = "done"
    /\ Len(grouped.groups) >= 2
    /\ Len(grouped.groups[Len(grouped.groups)]) < amount_per_group

\* C26: in each of the states MENU, SCHEDULE and RANDOM the Cancel button is
\* handled by helper.cancel, never by schedule or random_post; the press ends
\* the conversation, and it adds or removes no subscription and posts no comic.
C26_CancelOnlyEndsTheConversation ==
    /\ [](\A state \in {"MENU", "SCHEDULE", "RANDOM"} : Dispatch(state, CommandCancel) = "cancel")
    /\ [][(conversation' # conversation /\ conversation'.data = CommandCancel) =>
             /\ conversation'.state = "END"
             /\ conversation'.handled = "cancel"
             /\ conversation'.raised = None
             /\ UNCHANGED <<daily_posts, images, daily, random>>]_vars

\* Cancel has ended a conversation of a chat that has a subscription.
C26_Witness ==
    /\ conversation.state = "END"
    /\ conversation.handled = "cancel"
    /\ conversation.data = CommandCancel
    /\ daily_posts # EmptyBag

\* C27: whenever a stickers conversation is in state ADD_STICKER_EMOJI, the
\* user's data holds a sticker_file_id.
C27_EmojiStateHoldsFileId ==
    \A c \in StickerChats :
        sticker_state[c] = "ADD_STICKER_EMOJI" => "sticker_file_id" \in user_data

\* C28: once the user's stickers conversations have ended, the user's data
\* holds neither sticker_set_title nor sticker_file_id; and a conversation that
\* found its sticker set to exist never calls create_new_sticker_set.
C28_EndedConversationLeavesNoData ==
    /\ (\A c \in StickerChats : sticker_state[c] = "END") => user_data = {}
    /\ bot_call.found => bot_call.method # "create_new_sticker_set"

============================================================================
